---- MODULE Spec2Model ----
(***************************************************************************)
(* Model of tauri-plugin-terminal: the session registry (SessionManager),  *)
(* the sessions it owns (Terminal + Pty + theme), the PTY reader threads,  *)
(* the periodic poll_output tick and the event channel.                    *)
(*                                                                         *)
(* Granularity: every SessionManager method that takes the registry lock   *)
(* once and does all its work under it is one action.  create and destroy  *)
(* release the lock in the middle, so they are split at those points.      *)
(*                                                                         *)
(* Ghost state (not in the program, used only to state properties):        *)
(*   uid          identity of a Session object (one per Session::new)      *)
(*   ret.ghost    facts about the call that produced ret                   *)
(*   the uid field of events                                               *)
(*   gone         which Session objects destroy / cleanup_dead have removed, *)
(*                and which ones create has announced                      *)
(***************************************************************************)
EXTENDS Integers, Sequences, FiniteSets, TLC

VARIABLES
    sessions,   \* SessionManager.sessions: id -> Session
    events,     \* event channel: what the latest step enqueued, in order (the
                \* forward_events task has taken everything enqueued before)
    pc,         \* per client thread: where it is inside create / destroy
    call,       \* per client thread: locals of the call in flight
    ret,        \* the result of the latest finished client call
    tickpc,     \* poll_output: which call of the loop body comes next
    tickRet,    \* the Vec returned by the latest cleanup_dead
    nextUid,    \* number of create calls that passed the existence check
    gone,       \* ghost: the <<uid, id>> destroy removed, the uids cleanup_dead removed,
                \* the <<uid, id>> create announced with SessionCreated
    scn,        \* which callers drive the program in this run (never changes)
    rw          \* the registry RwLock and the threads at it; the harnesses in
                \* which every method runs under the lock as one step leave it
                \* free

vars == <<sessions, events, pc, call, ret, tickpc, tickRet, nextUid, gone, scn, rw>>

----------------------------------------------------------------------------
\* Bounds of the model

MaxSessions == 2    \* create calls that get past the existence check
MaxQueue == 2       \* chunks waiting in one PTY's output queue
NumTexts == 2       \* distinct rendered texts of the abstract emulator
MaxMarks == 2       \* marks in the mark log of one session

\* Three harnesses drive the program.  "seq": one caller, t1, makes every call.
\* "race": a second caller, t2, runs create and destroy (the two methods that
\* release the registry lock midway) while t1 makes every call; the emulator
\* input is kept minimal there.  "term": t1 creates, resizes and polls one
\* session whose shell writes every kind of chunk; the sizes include zero
\* dimensions.  "out": t1 creates, resizes, polls and reads one session whose
\* shell echoes text, sets and clears the window title and rings the bell.
\* "poll": t1 creates two sessions, one with a generated id, whose queues
\* hold up to MaxQueue chunks, and the tick polls them.  "own": t1 constructs
\* a Session itself (the crate exports Session) and calls its methods; the
\* variable sessions then holds that Session under its id.  "lock": t1, t2
\* and the tick call list, get_info, count, write, resize, process_all and
\* cleanup_dead on one registered session, each split where it waits for the
\* registry lock and, for write, where the OS write to the PTY blocks.
Threads == {"t1", "t2"}
Callers == {"t1"}
Racers == IF scn = "race" THEN Threads ELSE {"t1"}
ExplicitIds == {"a"}
UuidPool == <<"u1", "u2", "u3", "u4">>

\* Option<T>
None == <<>>
Some(v) == <<v>>
UnwrapOr(o, d) == IF o = None THEN d ELSE o[1]

\* chunks the reader thread can read from the PTY master
Chunks == CASE scn = "race" -> {"text"}
            [] scn = "term" -> {"text", "nop", "color", "cursor"}
            [] scn = "out" -> {"text", "echo", "title_x", "title_y", "untitle", "bell"}
            [] scn = "poll" -> {"text"}
            [] OTHER -> {"text", "nop"}
QueueCap == IF scn \in {"seq", "poll", "own"} THEN MaxQueue ELSE 1

\* arguments the callers use
CfgIds == {Some(i) : i \in ExplicitIds} \cup (IF scn = "poll" THEN {None} ELSE {})
CfgSizes == CASE scn = "race" -> {<<Some(2), None>>}
              [] scn = "term" -> {<<Some(2), Some(2)>>}
              [] scn = "out" -> {<<Some(2), Some(1)>>}
              [] scn \in {"poll", "own"} -> {<<Some(1), Some(1)>>}
              [] OTHER -> {<<Some(2), None>>, <<None, Some(1)>>}
CfgThemes == {None}
ResizeArgs == CASE scn = "term" -> {<<1, 2>>, <<2, 2>>, <<0, 1>>}
                [] scn = "out" -> {<<1, 1>>, <<2, 1>>}
                [] OTHER -> {<<1, 2>>}
ThemeArgs == {"dracula", "not-a-theme"}
Marks == {"m1", "m2"}

Configs ==
    {[id |-> i, cols |-> cr[1], rows |-> cr[2], theme |-> th] :
        i \in CfgIds, cr \in CfgSizes, th \in CfgThemes}

\* SessionConfig / Size defaults
DefaultCols == 80
DefaultRows == 24

----------------------------------------------------------------------------
\* theme.rs

Rgb(r, g, b) == <<r, g, b>>

DARK == [name |-> "", background |-> Rgb(24, 24, 27)]
LIGHT == [name |-> "", background |-> Rgb(255, 255, 255)]
SOLARIZED_DARK == [name |-> "", background |-> Rgb(0, 43, 54)]
DRACULA == [name |-> "", background |-> Rgb(40, 42, 54)]
NORD == [name |-> "", background |-> Rgb(46, 52, 64)]
ONE_DARK == [name |-> "", background |-> Rgb(40, 44, 52)]

THEMES ==
    << <<"dark", DARK>>, <<"light", LIGHT>>, <<"solarized-dark", SOLARIZED_DARK>>,
       <<"dracula", DRACULA>>, <<"nord", NORD>>, <<"one-dark", ONE_DARK>> >>

\* Theme::by_name: the first table entry with that name, renamed to it
by_name(name) ==
    LET hits == {k \in 1..Len(THEMES) : THEMES[k][1] = name}
    IN  IF hits = {} THEN None
        ELSE LET k == CHOOSE x \in hits : \A y \in hits : x <= y
             IN  Some([THEMES[k][2] EXCEPT !.name = THEMES[k][1]])

\* Theme::default
ThemeDefault == DARK

----------------------------------------------------------------------------
\* types.rs: Color

\* a u8 result: the value an arithmetic expression has in 8 bits
Wrap(v) == v % 256

\* the values of the u8 index
PaletteIndices == 0..255

\* idx_to_color, the arms 0 ..= 15
StandardColors ==
    << Rgb(0, 0, 0), Rgb(205, 49, 49), Rgb(13, 188, 121), Rgb(229, 229, 16),
       Rgb(36, 114, 200), Rgb(188, 63, 188), Rgb(17, 168, 205), Rgb(229, 229, 229),
       Rgb(102, 102, 102), Rgb(241, 76, 76), Rgb(35, 209, 139), Rgb(245, 245, 67),
       Rgb(59, 142, 234), Rgb(214, 112, 214), Rgb(41, 184, 219), Rgb(255, 255, 255) >>

\* an idx_to_color whose gray ramp has a step of 11
idx_to_color_steep(idx) ==
    IF idx <= 15 THEN [color |-> StandardColors[idx + 1], overflow |-> FALSE]
    ELSE IF idx <= 231
    THEN LET n == idx - 16
             r == ((n \div 36) % 6) * 51
             g == ((n \div 6) % 6) * 51
             b == (n % 6) * 51
         IN  [color |-> Rgb(Wrap(r), Wrap(g), Wrap(b)),
              overflow |-> r > 255 \/ g > 255 \/ b > 255]
    ELSE LET m == (idx - 232) * 11
             gray == Wrap(m) + 8
         IN  [color |-> Rgb(Wrap(gray), Wrap(gray), Wrap(gray)),
              overflow |-> m > 255 \/ gray > 255]

\* idx_to_color: the colour, each u8 operation wrapped to 8 bits, and whether
\* one of them overflowed (a panic in a build with overflow checks)
idx_to_color(idx) ==
    IF idx <= 15 THEN [color |-> StandardColors[idx + 1], overflow |-> FALSE]
    ELSE IF idx <= 231
    THEN LET n == idx - 16
             r == ((n \div 36) % 6) * 51
             g == ((n \div 6) % 6) * 51
             b == (n % 6) * 51
         IN  [color |-> Rgb(Wrap(r), Wrap(g), Wrap(b)),
              overflow |-> r > 255 \/ g > 255 \/ b > 255]
    ELSE LET m == (idx - 232) * 10
             gray == Wrap(m) + 8
         IN  [color |-> Rgb(Wrap(gray), Wrap(gray), Wrap(gray)),
              overflow |-> m > 255 \/ gray > 255]

----------------------------------------------------------------------------
\* terminal.rs (the vt100 parser is abstracted to the text it renders)

Size(cols, rows) == [cols |-> cols, rows |-> rows]

\* vt100::Parser::new(rows, cols, scrollback): text is the characters of the
\* grid, attrs their colours and attributes
ParserNew(rows, cols) ==
    [rows |-> rows, cols |-> cols, text |-> 0, attrs |-> 0, title |-> "",
     cursor |-> [row |-> 0, col |-> 0]]

\* vt100::Parser::process: a "text" chunk changes the characters on the
\* screen, a "color" chunk rewrites the same characters with other colours,
\* a "cursor" chunk moves the cursor between the first two columns, an
\* "echo" chunk prints characters and moves the cursor, a "title_x" chunk
\* (OSC 0) sets the window title to "x", an "untitle" chunk sets it to the
\* empty string, a "bell" chunk prints characters and rings the bell, a "nop"
\* chunk (e.g. an unrecognised escape sequence) changes nothing
ParserProcess(p, data) ==
    CASE data = "text" -> [p EXCEPT !.text = (p.text + 1) % NumTexts]
      [] data = "color" -> [p EXCEPT !.attrs = 1 - p.attrs]
      [] data = "cursor" ->
            [p EXCEPT !.cursor.col = IF p.cursor.col = 0 /\ p.cols > 1 THEN 1 ELSE 0]
      [] data = "echo" ->
            [p EXCEPT !.text = (p.text + 1) % NumTexts,
                      !.cursor.col = IF p.cursor.col = 0 /\ p.cols > 1 THEN 1 ELSE 0]
      [] data = "title_x" -> [p EXCEPT !.title = "x"]
      [] data = "title_y" -> [p EXCEPT !.title = "y"]
      [] data = "untitle" -> [p EXCEPT !.title = ""]
      [] data = "bell" -> [p EXCEPT !.text = (p.text + 1) % NumTexts]
      [] OTHER -> p

\* vt100::Parser::set_size: the cursor stays on the grid
ParserSetSize(p, rows, cols) ==
    [p EXCEPT !.rows = rows, !.cols = cols,
              !.cursor.col = IF p.cursor.col < cols THEN p.cursor.col ELSE 0]

\* vt100::Screen::contents: the characters of the screen as plain text,
\* without colours, attributes or the cursor
Contents(p) == p.text

\* vt100::Screen::cell: the cell at (row, col), None outside the grid
ScreenCell(p, row, col) ==
    IF row < p.rows /\ col < p.cols
    THEN Some([text |-> p.text, attrs |-> p.attrs]) ELSE None

TerminalNew(cols, rows) ==
    [parser |-> ParserNew(rows, cols), size |-> Size(cols, rows), title |-> "",
     prev_contents |-> None]

\* Terminal::compute_changes, the inner loop from col on: a CellChange is
\* pushed for each cell of the row that the parser's grid has
RECURSIVE ColsFrom(_, _, _, _)
ColsFrom(term, p, row, col) ==
    IF col >= term.size.cols THEN <<>>
    ELSE LET cell == ScreenCell(p, row, col)
         IN  (IF cell # None THEN <<[row |-> row, col |-> col, cell |-> cell[1]]>>
              ELSE <<>>)
             \o ColsFrom(term, p, row, col + 1)

\* Terminal::compute_changes, the outer loop from row on
RECURSIVE RowsFrom(_, _, _)
RowsFrom(term, p, row) ==
    IF row >= term.size.rows THEN <<>>
    ELSE ColsFrom(term, p, row, 0) \o RowsFrom(term, p, row + 1)

\* a compute_changes whose outer loop starts at row 1
ComputeChanges_skips(term, p) == RowsFrom(term, p, 1)

\* Terminal::compute_changes: the list of CellChange
ComputeChanges(term, p) == RowsFrom(term, p, 0)

\* Terminal::process: [term |-> the terminal afterwards, changes |-> the list]
TerminalProcess(term, data) ==
    LET p == ParserProcess(term.parser, data)
        title == IF p.title # "" THEN p.title ELSE term.title
        current == Contents(p)
        changes == IF term.prev_contents # Some(current)
                   THEN ComputeChanges(term, p) ELSE <<>>
    IN  [term |-> [term EXCEPT !.parser = p, !.title = title,
                               !.prev_contents = Some(current)],
         changes |-> changes]

\* a resize that leaves the size field behind
TerminalResize_stale(term, cols, rows) ==
    [term EXCEPT !.parser = ParserSetSize(term.parser, rows, cols),
                 !.prev_contents = None]

\* Terminal::resize
TerminalResize(term, cols, rows) ==
    [term EXCEPT !.size = Size(cols, rows),
                 !.parser = ParserSetSize(term.parser, rows, cols),
                 !.prev_contents = None]

\* Terminal::get_cursor / get_cursor_from_screen
GetCursor(term) ==
    [position |-> term.parser.cursor, visible |-> TRUE, shape |-> "Block"]

\* Terminal::cell_at: the cell of the parser's grid, Cell::default() outside it
CellAt(p, row, col) ==
    LET cell == ScreenCell(p, row, col)
    IN  IF cell # None THEN cell[1] ELSE [text |-> 0, attrs |-> 0]

\* Terminal::get_screen
TerminalGetScreen(term) ==
    [kind |-> "screen", text |-> term.parser.text,
     cells |-> [row \in 1..term.size.rows |->
                   [col \in 1..term.size.cols |-> CellAt(term.parser, row - 1, col - 1)]],
     cursor |-> GetCursor(term),
     size |-> term.size, title |-> term.parser.title]

\* Terminal::check_bell
CheckBell(term) == FALSE

----------------------------------------------------------------------------
\* pty.rs

\* the Pty that Pty::spawn returns, its reader thread running
PtySpawn(size) ==
    [output_rx |-> <<>>, alive |-> TRUE, winsize |-> size, reader |-> "running"]

\* Pty::try_read: [pty |-> the pty afterwards, data |-> Option<chunk>]
TryRead_newest(pty) ==
    IF pty.output_rx = <<>> THEN [pty |-> pty, data |-> None]
    ELSE [pty |-> [pty EXCEPT !.output_rx = SubSeq(pty.output_rx, 1, Len(pty.output_rx) - 1)],
          data |-> Some(pty.output_rx[Len(pty.output_rx)])]

TryRead(pty) ==
    IF pty.output_rx = <<>> THEN [pty |-> pty, data |-> None]
    ELSE [pty |-> [pty EXCEPT !.output_rx = Tail(pty.output_rx)],
          data |-> Some(Head(pty.output_rx))]

PtyKill_revives(pty) == [pty EXCEPT !.alive = ~pty.alive]

\* Pty::kill
PtyKill(pty) == [pty EXCEPT !.alive = FALSE]

\* the reader thread: Ok(n) => output_tx.send(chunk)
ReaderSend(pty, chunk) == [pty EXCEPT !.output_rx = Append(pty.output_rx, chunk)]

\* the reader thread: Ok(0) or Err(e) => alive.store(false); break
ReaderExit(pty) == [pty EXCEPT !.alive = FALSE, !.reader = "exited"]

----------------------------------------------------------------------------
\* events.rs

Event(type, id, uid, data) ==
    [type |-> type, session_id |-> id, uid |-> uid, data |-> data]

NoData == [kind |-> "none"]

----------------------------------------------------------------------------
\* session.rs: Session

\* a Session::new that ignores the configured size
SessionNew_defaults(config, uid) ==
    [id |-> config.id[1],
     terminal |-> TerminalNew(DefaultCols, DefaultRows),
     pty |-> PtySpawn(Size(DefaultCols, DefaultRows)),
     theme |-> IF config.theme = None THEN ThemeDefault
               ELSE UnwrapOr(by_name(config.theme[1]), ThemeDefault),
     marks |-> <<>>,
     uid |-> uid]

\* Session::new after a successful Pty::spawn
SessionNew(config, uid) ==
    LET cols == UnwrapOr(config.cols, DefaultCols)
        rows == UnwrapOr(config.rows, DefaultRows)
    IN  [id |-> config.id[1],
         terminal |-> TerminalNew(cols, rows),
         pty |-> PtySpawn(Size(cols, rows)),
         theme |-> IF config.theme = None THEN ThemeDefault
                   ELSE UnwrapOr(by_name(config.theme[1]), ThemeDefault),
         marks |-> <<>>,
         uid |-> uid]

\* Session::info
Info(s) ==
    [kind |-> "info", id |-> s.id, title |-> s.terminal.title,
     size |-> s.terminal.size, is_alive |-> s.pty.alive]

\* Session::resize: [session, sent, ok]; ptyOk is the outcome of Pty::resize
SessionResize(s, cols, rows, ptyOk) ==
    LET term == TerminalResize(s.terminal, cols, rows)
    IN  IF ptyOk
        THEN [session |-> [s EXCEPT !.terminal = term,
                                    !.pty.winsize = Size(cols, rows)],
              sent |-> <<Event("TerminalResized", s.id, s.uid,
                               [kind |-> "size", cols |-> cols, rows |-> rows])>>,
              ok |-> TRUE]
        ELSE [session |-> [s EXCEPT !.terminal = term],
              sent |-> <<>>,
              ok |-> FALSE]

\* a process_output that returns the update without sending it
ProcessOutput_silent(s) ==
    LET r == TryRead(s.pty)
    IN  IF r.data = None
        THEN [session |-> s, update |-> None, sent |-> <<>>]
        ELSE LET tp == TerminalProcess(s.terminal, r.data[1])
                 s2 == [s EXCEPT !.pty = r.pty, !.terminal = tp.term]
                 update == [kind |-> "update", session_id |-> s.id,
                            changes |-> tp.changes, cursor |-> GetCursor(tp.term),
                            title |-> Some(tp.term.title)]
             IN  IF tp.changes # <<>>
                 THEN [session |-> s2, update |-> Some(update), sent |-> <<>>]
                 ELSE [session |-> s2, update |-> None, sent |-> <<>>]

\* a process_output that reads the cursor before it feeds the chunk
ProcessOutput_early(s) ==
    LET r == TryRead(s.pty)
    IN  IF r.data = None
        THEN [session |-> s, update |-> None, sent |-> <<>>]
        ELSE LET tp == TerminalProcess(s.terminal, r.data[1])
                 s2 == [s EXCEPT !.pty = r.pty, !.terminal = tp.term]
                 update == [kind |-> "update", session_id |-> s.id,
                            changes |-> tp.changes, cursor |-> GetCursor(s.terminal),
                            title |-> Some(tp.term.title)]
             IN  IF tp.changes # <<>>
                 THEN [session |-> s2, update |-> Some(update),
                       sent |-> <<Event("ScreenUpdate", s.id, s.uid, update)>>]
                 ELSE [session |-> s2, update |-> None, sent |-> <<>>]

\* a process_output that feeds the emulator an empty chunk when the queue
\* is empty
ProcessOutput_feeds(s) ==
    LET r == TryRead(s.pty)
        tp == TerminalProcess(s.terminal, IF r.data = None THEN "nop" ELSE r.data[1])
        s2 == [s EXCEPT !.pty = r.pty, !.terminal = tp.term]
        update == [kind |-> "update", session_id |-> s.id,
                   changes |-> tp.changes, cursor |-> GetCursor(tp.term),
                   title |-> Some(tp.term.title)]
    IN  IF tp.changes # <<>>
        THEN [session |-> s2, update |-> Some(update),
              sent |-> <<Event("ScreenUpdate", s.id, s.uid, update)>>]
        ELSE [session |-> s2, update |-> None, sent |-> <<>>]

\* Session::process_output: [session, update (Option<ScreenUpdate>), sent]
ProcessOutput(s) ==
    LET r == TryRead(s.pty)
    IN  IF r.data = None
        THEN [session |-> s, update |-> None, sent |-> <<>>]
        ELSE LET tp == TerminalProcess(s.terminal, r.data[1])
                 s2 == [s EXCEPT !.pty = r.pty, !.terminal = tp.term]
                 update == [kind |-> "update", session_id |-> s.id,
                            changes |-> tp.changes, cursor |-> GetCursor(tp.term),
                            title |-> Some(tp.term.title)]
             IN  IF tp.changes # <<>>
                 THEN [session |-> s2, update |-> Some(update),
                       sent |-> <<Event("ScreenUpdate", s.id, s.uid, update)>>
                                \o (IF CheckBell(tp.term)
                                    THEN <<Event("Bell", s.id, s.uid, NoData)>>
                                    ELSE <<>>)]
                 ELSE [session |-> s2, update |-> None, sent |-> <<>>]

\* an add_mark that puts the mark in front of the log
SessionAddMark_front(s, mark) ==
    [session |-> [s EXCEPT !.marks = <<mark>> \o @],
     sent |-> <<Event("Mark", s.id, s.uid, [kind |-> "mark", mark |-> mark])>>]

\* Session::add_mark: [session, sent]
SessionAddMark(s, mark) ==
    [session |-> [s EXCEPT !.marks = Append(@, mark)],
     sent |-> <<Event("Mark", s.id, s.uid, [kind |-> "mark", mark |-> mark])>>]

\* a set_theme that does not store the theme
SessionSetTheme_noop(s, theme) == s

\* Session::set_theme
SessionSetTheme(s, theme) == [s EXCEPT !.theme = theme]

\* a kill that leaves the alive flag set
SessionKill_noop(s) == s

\* Session::kill
SessionKill(s) == [s EXCEPT !.pty = PtyKill(s.pty)]

----------------------------------------------------------------------------
\* Helpers

Registered == DOMAIN sessions

\* HashMap::insert (replaces an entry with the same key)
MapInsert(m, k, v) == [x \in DOMAIN m \cup {k} |-> IF x = k THEN v ELSE m[x]]

\* HashMap::remove
MapRemove(m, k) == [x \in DOMAIN m \ {k} |-> m[x]]

\* the orders in which a HashMap iteration can visit the keys S
Orders(S) ==
    {o \in [1..Cardinality(S) -> S] : \A i, j \in 1..Cardinality(S) : o[i] = o[j] => i = j}

NoSession == [uid |-> 0]
NoConfig == [id |-> None]
NoCall == [id |-> "", config |-> NoConfig, uid |-> 0, session |-> NoSession]
NoGhost == [kind |-> "none"]

Result(t, op, id, res, val, ghost) ==
    [thread |-> t, op |-> op, id |-> id, res |-> res, val |-> val, ghost |-> ghost]

NoResult == Result("", "none", "", "none", NoData, NoGhost)

\* the ids callers pass: the explicit ones and those of registered sessions
CallIds == ExplicitIds \cup Registered

Return(t, r) == /\ ret' = r
                /\ pc' = [pc EXCEPT ![t] = "idle"]
                /\ call' = [call EXCEPT ![t] = NoCall]

\* EventSender::send of each event of evs, in order
Send(evs) == events' = evs

----------------------------------------------------------------------------
\* session.rs: the registry lock, a parking_lot::RwLock (sessions.read() and
\* sessions.write()), and pty.rs: the Mutex around the PTY writer

LockThreads == Threads \cup {"tick"}

\* the methods that take sessions.read() and those that take sessions.write()
ReadOps == {"list", "get_info", "count", "write"}
WriteOps == {"resize", "process_all", "cleanup_dead"}

\* readers / writer: the guards handed out; queue: the parked threads, oldest
\* first; at, op: where each thread is and in which method; pty_writer: the
\* holder of the Mutex of the session's PTY writer
NoLock ==
    [readers |-> {}, writer |-> None, queue |-> <<>>,
     at |-> [t \in LockThreads |-> "idle"], op |-> [t \in LockThreads |-> "none"],
     pty_writer |-> None]

\* whether a writer is parked
WriterWaits(l) == \E i \in 1..Len(l.queue) : l.op[l.queue[i]] \in WriteOps

\* RwLock::read without parking: no writer holds the lock and none is parked
\* (the task-fair policy: a reader does not overtake a waiting writer)
CanRead(l) == l.writer = None /\ ~WriterWaits(l)

\* RwLock::write without parking
CanWrite(l) == l.writer = None /\ l.readers = {} /\ l.queue = <<>>

\* the guard is handed to t
Acquire(l, t, op) ==
    IF op \in WriteOps
    THEN [l EXCEPT !.writer = Some(t), !.at[t] = "locked", !.op[t] = op]
    ELSE [l EXCEPT !.readers = @ \cup {t}, !.at[t] = "locked", !.op[t] = op]

\* t parks
Park(l, t, op) ==
    [l EXCEPT !.queue = Append(@, t), !.at[t] = "parked", !.op[t] = op]

\* the guard of t is dropped as its method returns
Release(l, t) ==
    [l EXCEPT !.readers = @ \ {t},
              !.writer = IF @ = Some(t) THEN None ELSE @,
              !.pty_writer = IF @ = Some(t) THEN None ELSE @,
              !.at[t] = "idle", !.op[t] = "none"]

----------------------------------------------------------------------------
Init ==
    /\ sessions = <<>>
    /\ events = <<>>
    /\ pc = [t \in Threads |-> "idle"]
    /\ call = [t \in Threads |-> NoCall]
    /\ ret = NoResult
    /\ tickpc = "process_all"
    /\ tickRet = <<>>
    /\ nextUid = 0
    /\ gone = [destroyed |-> {}, exited |-> {}, created |-> {}]
    /\ scn = "seq"
    /\ rw = NoLock

----------------------------------------------------------------------------
\* session.rs: SessionManager::create

\* a create without the existence check
CreateCheck_unchecked(t, config) ==
    /\ pc[t] = "idle"
    /\ nextUid < Len(UuidPool)
    /\ LET id == UnwrapOr(config.id, UuidPool[nextUid + 1])
       IN  /\ nextUid < MaxSessions
           /\ nextUid' = nextUid + 1
           /\ pc' = [pc EXCEPT ![t] = "create_new"]
           /\ call' = [call EXCEPT ![t] =
                         [id |-> id, config |-> [config EXCEPT !.id = Some(id)],
                          uid |-> nextUid + 1, session |-> NoSession]]
           /\ events' = <<>>
           /\ UNCHANGED <<sessions, ret, tickpc, tickRet, gone, scn>>

\* lines 245-253: the id, and the existence check under the read lock
CreateCheck(t, config) ==
    /\ pc[t] = "idle"
    /\ nextUid < Len(UuidPool)
    /\ LET id == UnwrapOr(config.id, UuidPool[nextUid + 1])
       IN  IF id \in Registered
           THEN /\ Return(t, Result(t, "create", id, "SessionAlreadyExists", NoData, NoGhost))
                /\ events' = <<>>
                /\ UNCHANGED <<sessions, tickpc, tickRet, nextUid, gone, scn>>
           ELSE /\ nextUid < MaxSessions
                /\ nextUid' = nextUid + 1
                /\ pc' = [pc EXCEPT ![t] = "create_new"]
                /\ call' = [call EXCEPT ![t] =
                              [id |-> id, config |-> [config EXCEPT !.id = Some(id)],
                               uid |-> nextUid + 1, session |-> NoSession]]
                /\ events' = <<>>
                /\ UNCHANGED <<sessions, ret, tickpc, tickRet, gone, scn>>

\* line 258, Session::new returning Ok: the PTY and its reader thread exist
SessionNewOk(t) ==
    /\ pc[t] = "create_new"
    /\ pc' = [pc EXCEPT ![t] = "create_insert"]
    /\ call' = [call EXCEPT ![t].session = SessionNew(call[t].config, call[t].uid)]
    /\ events' = <<>>
    /\ UNCHANGED <<sessions, ret, tickpc, tickRet, nextUid, gone, scn>>

\* a failing create that leaves an entry behind
SessionNewFail_registers(t) ==
    /\ pc[t] = "create_new"
    /\ sessions' = MapInsert(sessions, call[t].id,
                             [SessionNew(call[t].config, call[t].uid)
                                 EXCEPT !.pty.alive = FALSE, !.pty.reader = "exited"])
    /\ Return(t, Result(t, "create", call[t].id, "PtyError", NoData,
                        [kind |-> "create", uid |-> call[t].uid, config |-> call[t].config]))
    /\ events' = <<>>
    /\ UNCHANGED <<tickpc, tickRet, nextUid, gone, scn>>

\* line 258, Session::new returning Err(PtyError): `?` leaves create
SessionNewFail(t) ==
    /\ pc[t] = "create_new"
    /\ Return(t, Result(t, "create", call[t].id, "PtyError", NoData,
                        [kind |-> "create", uid |-> call[t].uid, config |-> call[t].config]))
    /\ events' = <<>>
    /\ UNCHANGED <<sessions, tickpc, tickRet, nextUid, gone, scn>>

\* lines 260-263: the insertion under the write lock
CreateInsert(t) ==
    /\ pc[t] = "create_insert"
    /\ sessions' = MapInsert(sessions, call[t].id, call[t].session)
    /\ pc' = [pc EXCEPT ![t] = "create_emit"]
    /\ call' = [call EXCEPT ![t].session = NoSession]
    /\ events' = <<>>
    /\ UNCHANGED <<ret, tickpc, tickRet, nextUid, gone, scn>>

\* lines 265-270: the SessionCreated event and the return
CreateEmit(t) ==
    /\ pc[t] = "create_emit"
    /\ Send(<<Event("SessionCreated", call[t].id, call[t].uid, NoData)>>)
    /\ Return(t, Result(t, "create", call[t].id, "Ok", [kind |-> "id", id |-> call[t].id],
                        [kind |-> "create", uid |-> call[t].uid, config |-> call[t].config]))
    /\ gone' = [gone EXCEPT !.created = @ \cup {<<call[t].uid, call[t].id>>}]
    /\ UNCHANGED <<sessions, tickpc, tickRet, nextUid, scn>>

----------------------------------------------------------------------------
\* session.rs: SessionManager::destroy

\* the removed Session as destroy holds it: of its fields only the Pty's alive
\* flag is still used before it is dropped; the chunks left in its queue are
\* dropped with it
Removed(s) ==
    [id |-> s.id, uid |-> s.uid,
     pty |-> [alive |-> s.pty.alive, output_rx |-> s.pty.output_rx]]

\* a destroy that leaves the entry in the map
DestroyRemove_keeps(t, id) ==
    /\ pc[t] = "idle"
    /\ id \in CallIds
    /\ IF id \in Registered
       THEN /\ pc' = [pc EXCEPT ![t] = "destroy_emit"]
            /\ call' = [call EXCEPT ![t] =
                          [id |-> id, config |-> NoConfig, uid |-> sessions[id].uid,
                           session |-> Removed(sessions[id])]]
            /\ gone' = [gone EXCEPT !.destroyed = @ \cup {<<sessions[id].uid, id>>}]
            /\ events' = <<>>
            /\ UNCHANGED <<sessions, ret, tickpc, tickRet, nextUid, scn>>
       ELSE /\ Return(t, Result(t, "destroy", id, "SessionNotFound", NoData, NoGhost))
            /\ events' = <<>>
            /\ UNCHANGED <<sessions, tickpc, tickRet, nextUid, gone, scn>>

\* lines 275-278 and the None arm: the removal under the write lock
DestroyRemove(t, id) ==
    /\ pc[t] = "idle"
    /\ id \in CallIds
    /\ IF id \in Registered
       THEN /\ sessions' = MapRemove(sessions, id)
            /\ pc' = [pc EXCEPT ![t] = "destroy_emit"]
            /\ call' = [call EXCEPT ![t] =
                          [id |-> id, config |-> NoConfig, uid |-> sessions[id].uid,
                           session |-> Removed(sessions[id])]]
            /\ gone' = [gone EXCEPT !.destroyed = @ \cup {<<sessions[id].uid, id>>}]
            /\ events' = <<>>
            /\ UNCHANGED <<ret, tickpc, tickRet, nextUid, scn>>
       ELSE /\ Return(t, Result(t, "destroy", id, "SessionNotFound", NoData, NoGhost))
            /\ events' = <<>>
            /\ UNCHANGED <<sessions, tickpc, tickRet, nextUid, gone, scn>>

\* lines 281-287: kill, the SessionDestroyed event, the return; the session
\* is dropped
DestroyEmit(t) ==
    /\ pc[t] = "destroy_emit"
    /\ LET s == SessionKill(call[t].session)
       IN  /\ Send(<<Event("SessionDestroyed", call[t].id, s.uid, NoData)>>)
           /\ Return(t, Result(t, "destroy", call[t].id, "Ok", NoData,
                               [kind |-> "destroy", uid |-> s.uid, alive |-> s.pty.alive]))
    /\ UNCHANGED <<sessions, tickpc, tickRet, nextUid, gone, scn>>

----------------------------------------------------------------------------
\* session.rs: the SessionManager methods that hold the lock throughout

\* a lookup failure reported as SessionClosed
NotFound_closed(t, op, id) ==
    /\ Return(t, Result(t, op, id, "SessionClosed", NoData, NoGhost))
    /\ events' = <<>>
    /\ UNCHANGED <<sessions, tickpc, tickRet, nextUid, gone, scn>>

NotFound(t, op, id) ==
    /\ Return(t, Result(t, op, id, "SessionNotFound", NoData, NoGhost))
    /\ events' = <<>>
    /\ UNCHANGED <<sessions, tickpc, tickRet, nextUid, gone, scn>>

\* ghost: the latest finished call is a successful create(id) of this thread
AfterCreate(t, id) ==
    ret.thread = t /\ ret.op = "create" /\ ret.res = "Ok" /\ ret.id = id

GetInfo(t, id) ==
    /\ pc[t] = "idle"
    /\ id \in CallIds
    /\ IF id \in Registered
       THEN /\ Return(t, Result(t, "get_info", id, "Ok", Info(sessions[id]),
                                [kind |-> "get_info", fresh |-> AfterCreate(t, id)]))
            /\ events' = <<>>
            /\ UNCHANGED <<sessions, tickpc, tickRet, nextUid, gone, scn>>
       ELSE /\ Return(t, Result(t, "get_info", id, "SessionNotFound", NoData,
                                [kind |-> "get_info", fresh |-> AfterCreate(t, id)]))
            /\ events' = <<>>
            /\ UNCHANGED <<sessions, tickpc, tickRet, nextUid, gone, scn>>

\* the Vec is in HashMap order; it is modelled as the set of its elements
List(t) ==
    /\ pc[t] = "idle"
    /\ Return(t, Result(t, "list", "", "Ok",
                        [kind |-> "list", infos |-> {Info(sessions[i]) : i \in Registered}],
                        NoGhost))
    /\ events' = <<>>
    /\ UNCHANGED <<sessions, tickpc, tickRet, nextUid, gone, scn>>

Count(t) ==
    /\ pc[t] = "idle"
    /\ Return(t, Result(t, "count", "", "Ok",
                        [kind |-> "count", n |-> Cardinality(Registered)], NoGhost))
    /\ events' = <<>>
    /\ UNCHANGED <<sessions, tickpc, tickRet, nextUid, gone, scn>>

\* Pty::write succeeds or fails with PtyError; the bytes go to the child
Write(t, id) ==
    /\ pc[t] = "idle"
    /\ id \in CallIds
    /\ IF id \in Registered
       THEN /\ \E ok \in BOOLEAN :
                 Return(t, Result(t, "write", id, IF ok THEN "Ok" ELSE "PtyError",
                                  NoData, NoGhost))
            /\ events' = <<>>
            /\ UNCHANGED <<sessions, tickpc, tickRet, nextUid, gone, scn>>
       ELSE NotFound(t, "write", id)

Resize(t, id, cols, rows) ==
    /\ pc[t] = "idle"
    /\ id \in CallIds
    /\ IF id \in Registered
       THEN \E ptyOk \in BOOLEAN :
               LET r == SessionResize(sessions[id], cols, rows, ptyOk)
               IN  /\ sessions' = [sessions EXCEPT ![id] = r.session]
                   /\ Send(r.sent)
                   /\ Return(t, Result(t, "resize", id, IF r.ok THEN "Ok" ELSE "PtyError",
                                       NoData, [kind |-> "resize", cols |-> cols,
                                                rows |-> rows]))
                   /\ UNCHANGED <<tickpc, tickRet, nextUid, gone, scn>>
       ELSE NotFound(t, "resize", id)

GetScreen(t, id) ==
    /\ pc[t] = "idle"
    /\ id \in CallIds
    /\ IF id \in Registered
       THEN /\ Return(t, Result(t, "get_screen", id, "Ok",
                                TerminalGetScreen(sessions[id].terminal), NoGhost))
            /\ events' = <<>>
            /\ UNCHANGED <<sessions, tickpc, tickRet, nextUid, gone, scn>>
       ELSE NotFound(t, "get_screen", id)

\* ghost: the latest finished call is a process(id) of this thread and the
\* reader thread of id has enqueued nothing since
AgainQuiet(t, id) ==
    ret.thread = t /\ ret.op = "process" /\ ret.id = id /\ ret.res = "Ok" /\ ret.ghost.quiet

Process(t, id) ==
    /\ pc[t] = "idle"
    /\ id \in CallIds
    /\ IF id \in Registered
       THEN LET r == ProcessOutput(sessions[id])
            IN  /\ sessions' = [sessions EXCEPT ![id] = r.session]
                /\ Send(r.sent)
                /\ Return(t, Result(t, "process", id, "Ok",
                                    [kind |-> "option", opt |-> r.update],
                                    [kind |-> "process", uid |-> sessions[id].uid,
                                     again |-> AgainQuiet(t, id), quiet |-> TRUE,
                                     drained |-> r.session.pty.output_rx = <<>>]))
                /\ UNCHANGED <<tickpc, tickRet, nextUid, gone, scn>>
       ELSE NotFound(t, "process", id)

GetTheme(t, id) ==
    /\ pc[t] = "idle"
    /\ id \in CallIds
    /\ IF id \in Registered
       THEN /\ Return(t, Result(t, "get_theme", id, "Ok",
                                [kind |-> "theme", theme |-> sessions[id].theme], NoGhost))
            /\ events' = <<>>
            /\ UNCHANGED <<sessions, tickpc, tickRet, nextUid, gone, scn>>
       ELSE NotFound(t, "get_theme", id)

SetTheme(t, id, theme_name) ==
    /\ pc[t] = "idle"
    /\ id \in CallIds
    /\ LET theme == by_name(theme_name)
       IN  IF theme = None
           THEN /\ Return(t, Result(t, "set_theme", id, "InvalidConfig", NoData, NoGhost))
                /\ events' = <<>>
                /\ UNCHANGED <<sessions, tickpc, tickRet, nextUid, gone, scn>>
           ELSE IF id \in Registered
           THEN /\ sessions' = [sessions EXCEPT ![id] = SessionSetTheme(@, theme[1])]
                /\ Return(t, Result(t, "set_theme", id, "Ok", NoData, NoGhost))
                /\ events' = <<>>
                /\ UNCHANGED <<tickpc, tickRet, nextUid, gone, scn>>
           ELSE NotFound(t, "set_theme", id)

----------------------------------------------------------------------------
\* plugin.rs: poll_output, and the two SessionManager methods it calls

\* a loop that polls the session it visits first a second time
ProcessFrom_twice(order, k, m, sent) ==
    IF order = <<>> THEN [sessions |-> m, sent |-> sent]
    ELSE LET r1 == ProcessOutput(m[order[1]])
             r2 == ProcessOutput(r1.session)
         IN  [sessions |-> [m EXCEPT ![order[1]] = r2.session],
              sent |-> sent \o r1.sent \o r2.sent]

\* process_output on order[k], order[k+1], ...: [sessions, sent]
RECURSIVE ProcessFrom(_, _, _, _)
ProcessFrom(order, k, m, sent) ==
    IF k > Len(order) THEN [sessions |-> m, sent |-> sent]
    ELSE LET r == ProcessOutput(m[order[k]])
         IN  ProcessFrom(order, k + 1, [m EXCEPT ![order[k]] = r.session], sent \o r.sent)

\* SessionManager::process_all, the first call of the loop body
ProcessAll ==
    /\ tickpc = "process_all"
    /\ \E order \in Orders(Registered) :
          LET r == ProcessFrom(order, 1, sessions, <<>>)
          IN  /\ sessions' = r.sessions
              /\ Send(r.sent)
    /\ tickpc' = "cleanup_dead"
    /\ UNCHANGED <<pc, call, ret, tickRet, nextUid, gone, scn>>

\* a cleanup that does not look at the alive flag
CleanupDead_all ==
    /\ tickpc = "cleanup_dead"
    /\ LET deadIds == Registered
       IN  \E dead \in Orders(deadIds) :
              /\ sessions' = [id \in Registered \ deadIds |-> sessions[id]]
              /\ Send([k \in 1..Len(dead) |->
                         Event("ProcessExit", dead[k], sessions[dead[k]].uid,
                               [kind |-> "exit", exit_code |-> None])])
              /\ tickRet' = dead
              /\ gone' = [gone EXCEPT !.exited = @ \cup {sessions[id].uid : id \in deadIds}]
    /\ tickpc' = "process_all"
    /\ UNCHANGED <<pc, call, ret, nextUid, scn>>

\* SessionManager::cleanup_dead, the second call of the loop body
CleanupDead ==
    /\ tickpc = "cleanup_dead"
    /\ LET deadIds == {id \in Registered : ~sessions[id].pty.alive}
       IN  \E dead \in Orders(deadIds) :
              /\ sessions' = [id \in Registered \ deadIds |-> sessions[id]]
              /\ Send([k \in 1..Len(dead) |->
                         Event("ProcessExit", dead[k], sessions[dead[k]].uid,
                               [kind |-> "exit", exit_code |-> None])])
              /\ tickRet' = dead
              /\ gone' = [gone EXCEPT !.exited = @ \cup {sessions[id].uid : id \in deadIds}]
    /\ tickpc' = "process_all"
    /\ UNCHANGED <<pc, call, ret, nextUid, scn>>

----------------------------------------------------------------------------
\* pty.rs: the reader thread of each Pty, of the registered sessions and of
\* the sessions a create call has not inserted yet

ReaderRead(id, chunk) ==
    /\ id \in Registered
    /\ sessions[id].pty.reader = "running"
    /\ Len(sessions[id].pty.output_rx) < QueueCap
    /\ sessions' = [sessions EXCEPT ![id].pty = ReaderSend(@, chunk)]
    /\ ret' = IF ret.op = "process" /\ ret.res = "Ok" /\ ret.id = id
              THEN [ret EXCEPT !.ghost.quiet = FALSE] ELSE ret
    /\ events' = <<>>
    /\ UNCHANGED <<pc, call, tickpc, tickRet, nextUid, gone, scn>>

ReaderEof(id) ==
    /\ id \in Registered
    /\ sessions[id].pty.reader = "running"
    /\ sessions' = [sessions EXCEPT ![id].pty = ReaderExit(@)]
    /\ events' = <<>>
    /\ UNCHANGED <<pc, call, ret, tickpc, tickRet, nextUid, gone, scn>>

\* a create call holds its new Session until it has inserted it
Holding(t) == pc[t] = "create_insert"

ReaderReadHeld(t, chunk) ==
    /\ Holding(t)
    /\ call[t].session.pty.reader = "running"
    /\ Len(call[t].session.pty.output_rx) < QueueCap
    /\ call' = [call EXCEPT ![t].session.pty = ReaderSend(@, chunk)]
    /\ events' = <<>>
    /\ UNCHANGED <<sessions, pc, ret, tickpc, tickRet, nextUid, gone, scn>>

ReaderEofHeld(t) ==
    /\ Holding(t)
    /\ call[t].session.pty.reader = "running"
    /\ call' = [call EXCEPT ![t].session.pty = ReaderExit(@)]
    /\ events' = <<>>
    /\ UNCHANGED <<sessions, pc, ret, tickpc, tickRet, nextUid, gone, scn>>

----------------------------------------------------------------------------
Next ==
    \/ \E t \in Racers : \E config \in Configs : CreateCheck(t, config) /\ UNCHANGED rw
    \/ \E t \in Racers : SessionNewOk(t) /\ UNCHANGED rw
    \/ \E t \in Racers : SessionNewFail(t) /\ UNCHANGED rw
    \/ \E t \in Racers : CreateInsert(t) /\ UNCHANGED rw
    \/ \E t \in Racers : CreateEmit(t) /\ UNCHANGED rw
    \/ \E t \in Racers : \E id \in CallIds : DestroyRemove(t, id) /\ UNCHANGED rw
    \/ \E t \in Racers : DestroyEmit(t) /\ UNCHANGED rw
    \/ \E t \in Callers : \E id \in CallIds : GetInfo(t, id) /\ UNCHANGED rw
    \/ \E t \in Callers : List(t) /\ UNCHANGED rw
    \/ \E t \in Callers : Count(t) /\ UNCHANGED rw
    \/ \E t \in Callers : \E id \in CallIds : Write(t, id) /\ UNCHANGED rw
    \/ \E t \in Callers : \E id \in CallIds : \E a \in ResizeArgs : Resize(t, id, a[1], a[2]) /\ UNCHANGED rw
    \/ \E t \in Callers : \E id \in CallIds : GetScreen(t, id) /\ UNCHANGED rw
    \/ \E t \in Callers : \E id \in CallIds : Process(t, id) /\ UNCHANGED rw
    \/ \E t \in Callers : \E id \in CallIds : GetTheme(t, id) /\ UNCHANGED rw
    \/ \E t \in Callers : \E id \in CallIds : \E n \in ThemeArgs : SetTheme(t, id, n) /\ UNCHANGED rw
    \/ ProcessAll /\ UNCHANGED rw
    \/ CleanupDead /\ UNCHANGED rw
    \/ \E id \in Registered : \E c \in Chunks : ReaderRead(id, c) /\ UNCHANGED rw
    \/ \E id \in Registered : ReaderEof(id) /\ UNCHANGED rw
    \/ \E t \in Racers : \E c \in Chunks : ReaderReadHeld(t, c) /\ UNCHANGED rw
    \/ \E t \in Racers : ReaderEofHeld(t) /\ UNCHANGED rw

Spec == Init /\ [][Next]_vars

\* the same program with the second caller
InitRace ==
    /\ sessions = <<>>
    /\ events = <<>>
    /\ pc = [t \in Threads |-> "idle"]
    /\ call = [t \in Threads |-> NoCall]
    /\ ret = NoResult
    /\ tickpc = "process_all"
    /\ tickRet = <<>>
    /\ nextUid = 0
    /\ gone = [destroyed |-> {}, exited |-> {}, created |-> {}]
    /\ scn = "race"
    /\ rw = NoLock

SpecRace == InitRace /\ [][Next]_vars

\* the program driven through create, resize, process and the tick only
InitTerm ==
    /\ sessions = <<>>
    /\ events = <<>>
    /\ pc = [t \in Threads |-> "idle"]
    /\ call = [t \in Threads |-> NoCall]
    /\ ret = NoResult
    /\ tickpc = "process_all"
    /\ tickRet = <<>>
    /\ nextUid = 0
    /\ gone = [destroyed |-> {}, exited |-> {}, created |-> {}]
    /\ scn = "term"
    /\ rw = NoLock

NextTerm ==
    \/ \E t \in Callers : \E config \in Configs : CreateCheck(t, config) /\ UNCHANGED rw
    \/ \E t \in Callers : SessionNewOk(t) /\ UNCHANGED rw
    \/ \E t \in Callers : CreateInsert(t) /\ UNCHANGED rw
    \/ \E t \in Callers : CreateEmit(t) /\ UNCHANGED rw
    \/ \E t \in Callers : \E id \in CallIds : \E a \in ResizeArgs : Resize(t, id, a[1], a[2]) /\ UNCHANGED rw
    \/ \E t \in Callers : \E id \in CallIds : Process(t, id) /\ UNCHANGED rw
    \/ \E t \in Callers : \E id \in CallIds : GetScreen(t, id) /\ UNCHANGED rw
    \/ ProcessAll /\ UNCHANGED rw
    \/ CleanupDead /\ UNCHANGED rw
    \/ \E id \in Registered : \E c \in Chunks : ReaderRead(id, c) /\ UNCHANGED rw

SpecTerm == InitTerm /\ [][NextTerm]_vars

\* the program driven through create, resize, process, get_info, get_screen
\* and the tick, the shell writing titles, echoes and bells
InitOut ==
    /\ sessions = <<>>
    /\ events = <<>>
    /\ pc = [t \in Threads |-> "idle"]
    /\ call = [t \in Threads |-> NoCall]
    /\ ret = NoResult
    /\ tickpc = "process_all"
    /\ tickRet = <<>>
    /\ nextUid = 0
    /\ gone = [destroyed |-> {}, exited |-> {}, created |-> {}]
    /\ scn = "out"
    /\ rw = NoLock

NextOut ==
    \/ \E t \in Callers : \E config \in Configs : CreateCheck(t, config) /\ UNCHANGED rw
    \/ \E t \in Callers : SessionNewOk(t) /\ UNCHANGED rw
    \/ \E t \in Callers : CreateInsert(t) /\ UNCHANGED rw
    \/ \E t \in Callers : CreateEmit(t) /\ UNCHANGED rw
    \/ \E t \in Callers : \E id \in CallIds : \E a \in ResizeArgs : Resize(t, id, a[1], a[2]) /\ UNCHANGED rw
    \/ \E t \in Callers : \E id \in CallIds : Process(t, id) /\ UNCHANGED rw
    \/ \E t \in Callers : \E id \in CallIds : GetInfo(t, id) /\ UNCHANGED rw
    \/ \E t \in Callers : \E id \in CallIds : GetScreen(t, id) /\ UNCHANGED rw
    \/ ProcessAll /\ UNCHANGED rw
    \/ CleanupDead /\ UNCHANGED rw
    \/ \E id \in Registered : \E c \in Chunks : ReaderRead(id, c) /\ UNCHANGED rw

SpecOut == InitOut /\ [][NextOut]_vars

\* the program driven through create, process and the tick, with two sessions
InitPoll ==
    /\ sessions = <<>>
    /\ events = <<>>
    /\ pc = [t \in Threads |-> "idle"]
    /\ call = [t \in Threads |-> NoCall]
    /\ ret = NoResult
    /\ tickpc = "process_all"
    /\ tickRet = <<>>
    /\ nextUid = 0
    /\ gone = [destroyed |-> {}, exited |-> {}, created |-> {}]
    /\ scn = "poll"
    /\ rw = NoLock

NextPoll ==
    \/ \E t \in Callers : \E config \in Configs : CreateCheck(t, config) /\ UNCHANGED rw
    \/ \E t \in Callers : SessionNewOk(t) /\ UNCHANGED rw
    \/ \E t \in Callers : CreateInsert(t) /\ UNCHANGED rw
    \/ \E t \in Callers : CreateEmit(t) /\ UNCHANGED rw
    \/ \E t \in Callers : \E id \in CallIds : Process(t, id) /\ UNCHANGED rw
    \/ ProcessAll /\ UNCHANGED rw
    \/ CleanupDead /\ UNCHANGED rw
    \/ \E id \in Registered : \E c \in Chunks : ReaderRead(id, c) /\ UNCHANGED rw

SpecPoll == InitPoll /\ [][NextPoll]_vars

----------------------------------------------------------------------------
\* session.rs: the SessionManager methods, split at the registry lock

\* the ids and arguments of the calls of this harness
LockId == "a"
LockConfig == [id |-> Some(LockId), cols |-> Some(1), rows |-> Some(1), theme |-> None]

\* a second session, which the resize calls of this harness are about
OtherId == "b"
OtherConfig == [id |-> Some(OtherId), cols |-> Some(1), rows |-> Some(1), theme |-> None]

\* a caller enters a method at sessions.read() / sessions.write()
LockCall(t, op) ==
    /\ t \in Threads
    /\ op \in {"list", "get_info", "count", "write", "resize"}
    /\ rw.at[t] = "idle"
    /\ rw' = IF (op \in WriteOps /\ CanWrite(rw)) \/ (op \in ReadOps /\ CanRead(rw))
             THEN Acquire(rw, t, op) ELSE Park(rw, t, op)
    /\ UNCHANGED <<sessions, events, pc, call, ret, tickpc, tickRet, nextUid, gone, scn>>

\* poll_output enters process_all or cleanup_dead at sessions.write()
LockTick ==
    /\ rw.at["tick"] = "idle"
    /\ rw' = IF CanWrite(rw) THEN Acquire(rw, "tick", tickpc) ELSE Park(rw, "tick", tickpc)
    /\ UNCHANGED <<sessions, events, pc, call, ret, tickpc, tickRet, nextUid, gone, scn>>

\* the lock is handed to the oldest parked thread once it can take it
LockGrant ==
    /\ rw.queue # <<>>
    /\ LET t == Head(rw.queue)
       IN  /\ rw.writer = None
           /\ rw.op[t] \in WriteOps => rw.readers = {}
           /\ rw' = Acquire([rw EXCEPT !.queue = Tail(@)], t, rw.op[t])
    /\ UNCHANGED <<sessions, events, pc, call, ret, tickpc, tickRet, nextUid, gone, scn>>

Locked(t, op) == rw.at[t] = "locked" /\ rw.op[t] = op

\* list, get_info, count and resize under the guard, which drops as they return
LockedList(t) == Locked(t, "list") /\ List(t) /\ rw' = Release(rw, t)

LockedGetInfo(t) == Locked(t, "get_info") /\ GetInfo(t, LockId) /\ rw' = Release(rw, t)

LockedCount(t) == Locked(t, "count") /\ Count(t) /\ rw' = Release(rw, t)

LockedResize(t, cols, rows) ==
    Locked(t, "resize") /\ Resize(t, OtherId, cols, rows) /\ rw' = Release(rw, t)

\* process_all and cleanup_dead under the guard
LockedProcessAll == Locked("tick", "process_all") /\ ProcessAll /\ rw' = Release(rw, "tick")

LockedCleanupDead ==
    Locked("tick", "cleanup_dead") /\ CleanupDead /\ rw' = Release(rw, "tick")

\* write under the read guard: Pty::write takes the Mutex of the writer and
\* enters write_all
PtyWriteLock(t) ==
    /\ Locked(t, "write")
    /\ LockId \in Registered
    /\ rw.pty_writer = None
    /\ rw' = [rw EXCEPT !.pty_writer = Some(t), !.at[t] = "pty_write"]
    /\ UNCHANGED <<sessions, events, pc, call, ret, tickpc, tickRet, nextUid, gone, scn>>

\* write_all returns (the child took the bytes, or the write failed); both
\* guards drop as write returns
PtyWriteDone(t) ==
    /\ rw.at[t] = "pty_write"
    /\ Write(t, LockId)
    /\ rw' = Release(rw, t)

\* two sessions registered by earlier creates
InitLock ==
    /\ sessions = MapInsert(MapInsert(<<>>, LockId, SessionNew(LockConfig, 1)),
                            OtherId, SessionNew(OtherConfig, 2))
    /\ events = <<>>
    /\ pc = [t \in Threads |-> "idle"]
    /\ call = [t \in Threads |-> NoCall]
    /\ ret = Result("t1", "create", OtherId, "Ok", [kind |-> "id", id |-> OtherId],
                    [kind |-> "create", uid |-> 2, config |-> OtherConfig])
    /\ tickpc = "process_all"
    /\ tickRet = <<>>
    /\ nextUid = 2
    /\ gone = [destroyed |-> {}, exited |-> {}, created |-> {<<1, LockId>>, <<2, OtherId>>}]
    /\ scn = "lock"
    /\ rw = NoLock

NextLock ==
    \/ \E t \in Threads : \E op \in ReadOps \cup WriteOps : LockCall(t, op)
    \/ LockTick
    \/ LockGrant
    \/ \E t \in Threads : LockedList(t)
    \/ \E t \in Threads : LockedGetInfo(t)
    \/ \E t \in Threads : LockedCount(t)
    \/ \E t \in Threads : \E a \in ResizeArgs : LockedResize(t, a[1], a[2])
    \/ LockedProcessAll
    \/ LockedCleanupDead
    \/ \E t \in Threads : PtyWriteLock(t)
    \/ \E t \in Threads : PtyWriteDone(t)

SpecLock == InitLock /\ [][NextLock]_vars

\* the scheduler runs every thread that can take a step, and the lock is
\* handed on; nothing makes a caller call, and nothing makes the child read
\* the bytes a write_all is blocked on
FairLock ==
    /\ WF_vars(LockTick)
    /\ WF_vars(LockGrant)
    /\ WF_vars(LockedProcessAll)
    /\ WF_vars(LockedCleanupDead)
    /\ \A t \in Threads :
          /\ WF_vars(LockedList(t))
          /\ WF_vars(LockedGetInfo(t))
          /\ WF_vars(LockedCount(t))
          /\ WF_vars(\E a \in ResizeArgs : LockedResize(t, a[1], a[2]))
          /\ WF_vars(PtyWriteLock(t))

SpecLockFair == SpecLock /\ FairLock

----------------------------------------------------------------------------
\* session.rs: a Session its owner constructed, driven through its methods

\* Session::new returning Ok
OwnNew(t, config) ==
    /\ pc[t] = "idle"
    /\ nextUid < 1
    /\ nextUid' = nextUid + 1
    /\ sessions' = MapInsert(sessions, config.id[1], SessionNew(config, nextUid + 1))
    /\ Return(t, Result(t, "new", config.id[1], "Ok", NoData, NoGhost))
    /\ events' = <<>>
    /\ UNCHANGED <<tickpc, tickRet, gone, scn>>

\* Session::add_mark
OwnAddMark(t, id, mark) ==
    /\ pc[t] = "idle"
    /\ id \in Registered
    /\ Len(sessions[id].marks) < MaxMarks
    /\ LET r == SessionAddMark(sessions[id], mark)
       IN  /\ sessions' = [sessions EXCEPT ![id] = r.session]
           /\ Send(r.sent)
    /\ Return(t, Result(t, "add_mark", id, "Ok", NoData, NoGhost))
    /\ UNCHANGED <<tickpc, tickRet, nextUid, gone, scn>>

\* Session::marks
OwnMarks(t, id) ==
    /\ pc[t] = "idle"
    /\ id \in Registered
    /\ Return(t, Result(t, "marks", id, "Ok",
                        [kind |-> "marks", marks |-> sessions[id].marks], NoGhost))
    /\ events' = <<>>
    /\ UNCHANGED <<sessions, tickpc, tickRet, nextUid, gone, scn>>

\* Session::process_output
OwnProcessOutput(t, id) ==
    /\ pc[t] = "idle"
    /\ id \in Registered
    /\ LET r == ProcessOutput(sessions[id])
       IN  /\ sessions' = [sessions EXCEPT ![id] = r.session]
           /\ Send(r.sent)
           /\ Return(t, Result(t, "process_output", id, "Ok",
                               [kind |-> "option", opt |-> r.update], NoGhost))
    /\ UNCHANGED <<tickpc, tickRet, nextUid, gone, scn>>

\* Session::resize
OwnResize(t, id, cols, rows) ==
    /\ pc[t] = "idle"
    /\ id \in Registered
    /\ \E ptyOk \in BOOLEAN :
          LET r == SessionResize(sessions[id], cols, rows, ptyOk)
          IN  /\ sessions' = [sessions EXCEPT ![id] = r.session]
              /\ Send(r.sent)
              /\ Return(t, Result(t, "resize", id, IF r.ok THEN "Ok" ELSE "PtyError",
                                  NoData, NoGhost))
    /\ UNCHANGED <<tickpc, tickRet, nextUid, gone, scn>>

\* Session::set_theme
OwnSetTheme(t, id, theme) ==
    /\ pc[t] = "idle"
    /\ id \in Registered
    /\ sessions' = [sessions EXCEPT ![id] = SessionSetTheme(@, theme)]
    /\ Return(t, Result(t, "set_theme", id, "Ok", NoData, NoGhost))
    /\ events' = <<>>
    /\ UNCHANGED <<tickpc, tickRet, nextUid, gone, scn>>

\* Session::kill
OwnKill(t, id) ==
    /\ pc[t] = "idle"
    /\ id \in Registered
    /\ sessions' = [sessions EXCEPT ![id] = SessionKill(@)]
    /\ Return(t, Result(t, "kill", id, "Ok", NoData, NoGhost))
    /\ events' = <<>>
    /\ UNCHANGED <<tickpc, tickRet, nextUid, gone, scn>>

\* Session::write
OwnWrite(t, id) ==
    /\ pc[t] = "idle"
    /\ id \in Registered
    /\ \E ok \in BOOLEAN :
          Return(t, Result(t, "write", id, IF ok THEN "Ok" ELSE "PtyError", NoData, NoGhost))
    /\ events' = <<>>
    /\ UNCHANGED <<sessions, tickpc, tickRet, nextUid, gone, scn>>

InitOwn ==
    /\ sessions = <<>>
    /\ events = <<>>
    /\ pc = [t \in Threads |-> "idle"]
    /\ call = [t \in Threads |-> NoCall]
    /\ ret = NoResult
    /\ tickpc = "process_all"
    /\ tickRet = <<>>
    /\ nextUid = 0
    /\ gone = [destroyed |-> {}, exited |-> {}, created |-> {}]
    /\ scn = "own"
    /\ rw = NoLock

NextOwn ==
    \/ \E t \in Callers : \E config \in Configs : OwnNew(t, config) /\ UNCHANGED rw
    \/ \E t \in Callers : \E id \in Registered : \E mark \in Marks : OwnAddMark(t, id, mark) /\ UNCHANGED rw
    \/ \E t \in Callers : \E id \in Registered : OwnMarks(t, id) /\ UNCHANGED rw
    \/ \E t \in Callers : \E id \in Registered : OwnProcessOutput(t, id) /\ UNCHANGED rw
    \/ \E t \in Callers : \E id \in Registered : \E a \in ResizeArgs : OwnResize(t, id, a[1], a[2]) /\ UNCHANGED rw
    \/ \E t \in Callers : \E id \in Registered : OwnSetTheme(t, id, DRACULA) /\ UNCHANGED rw
    \/ \E t \in Callers : \E id \in Registered : OwnKill(t, id) /\ UNCHANGED rw
    \/ \E t \in Callers : \E id \in Registered : OwnWrite(t, id) /\ UNCHANGED rw
    \/ \E id \in Registered : \E c \in Chunks : ReaderRead(id, c) /\ UNCHANGED rw
    \/ \E id \in Registered : ReaderEof(id) /\ UNCHANGED rw

SpecOwn == InitOwn /\ [][NextOwn]_vars

----------------------------------------------------------------------------
\* types.rs: Color::from_vt100, driven on its own

\* the vt100 colours handed to from_vt100
Vt100Colors ==
    {[kind |-> "default"]}
        \cup {[kind |-> "idx", i |-> i] : i \in PaletteIndices}
        \cup {[kind |-> "rgb", r |-> 1, g |-> 2, b |-> 3]}

\* Color::from_vt100
FromVt100(c, default) ==
    CASE c.kind = "default" -> [color |-> default, overflow |-> FALSE]
      [] c.kind = "idx" -> idx_to_color(c.i)
      [] OTHER -> [color |-> Rgb(c.r, c.g, c.b), overflow |-> FALSE]

\* one call of Color::from_vt100
ConvertColor(c, default) ==
    /\ ret' = Result("t1", "from_vt100", "", "Ok",
                     [kind |-> "color", of |-> c, out |-> FromVt100(c, default)], NoGhost)
    /\ UNCHANGED <<sessions, events, pc, call, tickpc, tickRet, nextUid, gone, scn>>

InitColor ==
    /\ sessions = <<>>
    /\ events = <<>>
    /\ pc = [t \in Threads |-> "idle"]
    /\ call = [t \in Threads |-> NoCall]
    /\ ret = NoResult
    /\ tickpc = "process_all"
    /\ tickRet = <<>>
    /\ nextUid = 0
    /\ gone = [destroyed |-> {}, exited |-> {}, created |-> {}]
    /\ scn = "color"
    /\ rw = NoLock

NextColor == \E c \in Vt100Colors : ConvertColor(c, Rgb(0, 0, 0)) /\ UNCHANGED rw

SpecColor == InitColor /\ [][NextColor]_vars

----------------------------------------------------------------------------
TypeOK ==
    /\ nextUid <= MaxSessions
    /\ \A id \in Registered : sessions[id].id = id

----------------------------------------------------------------------------
\* Properties

\* the Session objects destroy has removed, and the ids they were under
DestroyedUids == {d[1] : d \in gone.destroyed}
DestroyedIds == {d[2] : d \in gone.destroyed}

\* C1: two concurrent create calls with the same explicit id behave as one
\* atomic check-and-insert: a create never replaces a session that is
\* registered under the id, so at most one of them inserts
C1_CreateAtomic ==
    [][\A id \in Registered \cap DOMAIN sessions' :
          sessions'[id].uid = sessions[id].uid]_vars

\* C2: create with an explicit id that is a key of the map returns
\* SessionAlreadyExists(id); it spawns nothing (no new Session object is
\* constructed), leaves the map and the existing session as they are and
\* sends no event
C2_ExistingIdRejected ==
    [][\A t \in Threads : \A config \in Configs :
          (CreateCheck(t, config) /\ config.id # None /\ config.id[1] \in Registered)
          => /\ ret' = Result(t, "create", config.id[1], "SessionAlreadyExists",
                              NoData, NoGhost)
             /\ pc'[t] = "idle"
             /\ nextUid' = nextUid
             /\ sessions' = sessions
             /\ events' = <<>>]_vars

\* a create on a registered id has returned SessionAlreadyExists, and the
\* session that was there, with output waiting in its queue, is still there
C2_Witness ==
    /\ ret.op = "create" /\ ret.res = "SessionAlreadyExists"
    /\ ret.id \in Registered
    /\ sessions[ret.id].pty.output_rx # <<>>

\* the steps of write, resize, get_screen, process, get_theme and set_theme
ByIdOp(t, id) ==
    \/ Write(t, id)
    \/ \E a \in ResizeArgs : Resize(t, id, a[1], a[2])
    \/ GetScreen(t, id)
    \/ Process(t, id)
    \/ GetTheme(t, id)

\* a call that returns res for id and changes nothing else
Refused(t, id, res) ==
    /\ ret'.thread = t /\ ret'.id = id /\ ret'.res = res
    /\ sessions' = sessions
    /\ events' = <<>>
    /\ gone' = gone

AbsentAfterDestroy(t, id, strict) ==
    /\ (ByIdOp(t, id) \/ GetInfo(t, id) \/ DestroyRemove(t, id))
          => Refused(t, id, "SessionNotFound")
    /\ \A n \in ThemeArgs :
          SetTheme(t, id, n) =>
             Refused(t, id, IF by_name(n) = None /\ ~strict THEN "InvalidConfig"
                            ELSE "SessionNotFound")

\* what destroy does apart from the calls that follow it
DestroySteps ==
    \A t \in Threads :
       /\ \A id \in Registered :
             DestroyRemove(t, id)
             => /\ sessions' = MapRemove(sessions, id)
                /\ sessions[id].uid \notin DestroyedUids
                /\ events' = <<>>
                /\ pc'[t] = "destroy_emit"
                /\ \A u \in Threads \ {t} :
                      pc[u] = "destroy_emit" => call[u].uid # sessions[id].uid
       /\ DestroyEmit(t)
             => /\ events' = <<Event("SessionDestroyed", call[t].id, call[t].uid, NoData)>>
                /\ ret' = Result(t, "destroy", call[t].id, "Ok", NoData,
                                 [kind |-> "destroy", uid |-> call[t].uid,
                                  alive |-> FALSE])
                /\ sessions' = sessions
       /\ \A id \in CallIds \ Registered :
             DestroyRemove(t, id) => Refused(t, id, "SessionNotFound")

C5_NoEventsAfterDestroy ==
    [][\A k \in 1..Len(events') :
          events'[k].type \in {"ScreenUpdate", "Bell", "TerminalResized", "Mark",
                               "ProcessExit"}
          => events'[k].uid \notin DestroyedUids]_vars

\* a destroy holds the session it removed with a chunk still in its queue,
\* and a process call on the id has come back SessionNotFound since
C5_Witness ==
    \E t \in Threads :
       /\ pc[t] = "destroy_emit"
       /\ call[t].session.pty.output_rx # <<>>
       /\ ret.op = "process" /\ ret.res = "SessionNotFound" /\ ret.id = call[t].id
       /\ ret.thread # t

\* C6: cleanup_dead removes exactly the sessions whose reader has cleared
\* the alive flag, returns their ids, sends one ProcessExit{id, None} for
\* each, for a session it never sent one for before, and leaves the alive
\* sessions as they are; nothing else sends ProcessExit
C6_CleanupDead ==
    [][/\ CleanupDead =>
             LET deadIds == {id \in Registered : ~sessions[id].pty.alive}
             IN  /\ sessions' = [id \in Registered \ deadIds |-> sessions[id]]
                 /\ {tickRet'[k] : k \in 1..Len(tickRet')} = deadIds
                 /\ Len(tickRet') = Cardinality(deadIds)
                 /\ Len(events') = Cardinality(deadIds)
                 /\ \A id \in deadIds :
                       /\ \E k \in 1..Len(events') :
                             events'[k] = Event("ProcessExit", id, sessions[id].uid,
                                                [kind |-> "exit", exit_code |-> None])
                       /\ sessions[id].uid \notin gone.exited
                       /\ sessions[id].pty.reader = "exited"
       /\ (\E k \in 1..Len(events') : events'[k].type = "ProcessExit") => CleanupDead
       /\ \A id \in Registered :
             (sessions[id].pty.alive /\ id \notin DOMAIN sessions')
             => \E t \in Threads : DestroyRemove(t, id)]_vars

\* cleanup_dead has removed the session whose reader saw EOF and sent its
\* ProcessExit
C6_Witness ==
    /\ tickRet # <<>>
    /\ Len(events) = 1 /\ events[1].type = "ProcessExit"
    /\ events[1].session_id = tickRet[1]
    /\ events[1].uid \in gone.exited
    /\ tickRet[1] \notin Registered

\* C7: when the spawn of the shell fails, create returns PtyError, the map
\* is as it was before the call, the Session object of the call is never
\* registered, and no SessionCreated is sent
C7_SpawnFailure ==
    [][\A t \in Threads :
          /\ SessionNewFail(t)
                => /\ ret'.thread = t /\ ret'.op = "create" /\ ret'.res = "PtyError"
                   /\ ret'.id = call[t].id
                   /\ pc'[t] = "idle"
                   /\ sessions' = sessions
                   /\ events' = <<>>
          /\ (\E config \in Configs : CreateCheck(t, config))
                => sessions' = sessions /\ events' = <<>>
          /\ (ret'.op = "create" /\ ret'.res = "PtyError")
                => \A id \in DOMAIN sessions' : sessions'[id].uid # ret'.ghost.uid]_vars

\* a create has returned PtyError and its id is not registered
C7_Witness ==
    /\ ret.op = "create" /\ ret.res = "PtyError"
    /\ ret.id \notin Registered
    /\ events = <<>>

\* the size a config asks for
ConfiguredSize(config) ==
    Size(UnwrapOr(config.cols, DefaultCols), UnwrapOr(config.rows, DefaultRows))

\* C8 as stated: get_info right after a successful create returns size equal
\* to the configured cols and rows (80 and 24 where the config has none) and
\* is_alive true, also with the reader thread and the tick running
C8_InfoAfterCreate ==
    [][\A t \in Threads : \A id \in CallIds :
          (GetInfo(t, id) /\ AfterCreate(t, id))
          => /\ ret'.res = "Ok"
             /\ ret'.val.size = ConfiguredSize(ret.ghost.config)
             /\ ret'.val.is_alive]_vars

\* C8 amended: with the reader thread and the tick running beside the
\* caller, get_info right after a successful create returns either
\* SessionNotFound, the reader having seen EOF and cleanup_dead having
\* removed the session, or an info whose size is the configured cols and
\* rows (80 and 24 where the config has none) and whose is_alive is true
\* exactly when the reader has not seen EOF or an error
C8_InfoAfterCreateAmended ==
    [][\A t \in Threads : \A id \in CallIds :
          (GetInfo(t, id) /\ AfterCreate(t, id))
          => \/ /\ ret'.res = "SessionNotFound"
                /\ ret.ghost.uid \in gone.exited
             \/ /\ ret'.res = "Ok"
                /\ sessions[id].uid = ret.ghost.uid
                /\ ret'.val.id = id
                /\ ret'.val.size = ConfiguredSize(ret.ghost.config)
                /\ ret'.val.is_alive = (sessions[id].pty.reader = "running")]_vars

\* get_info right after a create with rows 1 and no cols has returned the
\* size 80 x 1 and is_alive true
C8_Witness ==
    /\ ret.op = "get_info" /\ ret.res = "Ok" /\ ret.ghost.fresh
    /\ ret.val.size = Size(DefaultCols, 1)
    /\ ret.val.is_alive

\* the call is the second of two process(id) calls on the same session with
\* no enqueue of its reader since the first
SecondProcess(t, id) ==
    /\ AgainQuiet(t, id)
    /\ id \in Registered
    /\ sessions[id].uid = ret.ghost.uid
    /\ Process(t, id)

\* what process_output does on an empty queue: None, no event, the session
\* with its emulator and its previous-contents cache as it was
EmptyQueueQuiet ==
    /\ \A t \in Threads : \A id \in Registered :
          (sessions[id].pty.output_rx = <<>> /\ Process(t, id))
          => /\ ret'.res = "Ok" /\ ret'.val.opt = None
             /\ events' = <<>>
             /\ sessions' = sessions
    /\ ProcessAll =>
          \A id \in Registered :
             sessions[id].pty.output_rx = <<>>
             => /\ sessions'[id] = sessions[id]
                /\ \A k \in 1..Len(events') : events'[k].session_id # id

\* C9 as stated: of two process(id) calls with no chunk enqueued by the
\* reader in between, the second returns Ok(None) and sends nothing; and
\* process_output on an empty queue returns None, sends nothing and leaves
\* the emulator and the cache alone
C9_SecondProcessNone ==
    [][/\ \A t \in Threads : \A id \in CallIds :
             SecondProcess(t, id)
             => ret'.res = "Ok" /\ ret'.val.opt = None /\ events' = <<>>
       /\ EmptyQueueQuiet]_vars

\* C9 amended: the second of the two calls returns Ok(None) and sends
\* nothing when the first left the queue empty: a call consumes one chunk,
\* and a chunk that was already queued is processed by the second; the part
\* on the empty queue holds as stated
C9_EmptyQueueNone ==
    [][/\ \A t \in Threads : \A id \in CallIds :
             (SecondProcess(t, id) /\ ret.ghost.drained)
             => /\ ret'.res = "Ok" /\ ret'.val.opt = None /\ events' = <<>>
                /\ sessions' = sessions
       /\ EmptyQueueQuiet]_vars

\* a second process call has returned None after a first that had a chunk
\* to process
C9_Witness ==
    /\ ret.op = "process" /\ ret.res = "Ok"
    /\ ret.ghost.again
    /\ ret.val.opt = None
    /\ ret.id \in Registered
    /\ sessions[ret.id].terminal.prev_contents # None

\* the size get_screen and get_info report for a session
ReportedSizes(s) == <<TerminalGetScreen(s.terminal).size, Info(s).size>>

\* C10: after resize(id, {c, r}) returns Ok, get_screen(id).size and
\* get_info(id).size are {c, r}, and they stay so whatever else runs, until
\* the next resize of the session
C10_ResizeRoundTrip ==
    [][\A id \in Registered :
          /\ \A t \in Threads : \A a \in ResizeArgs :
                (Resize(t, id, a[1], a[2]) /\ ret'.res = "Ok")
                => /\ id \in DOMAIN sessions'
                   /\ ReportedSizes(sessions'[id]) = <<Size(a[1], a[2]), Size(a[1], a[2])>>
          /\ ( /\ id \in DOMAIN sessions'
               /\ sessions'[id].uid = sessions[id].uid
               /\ ~ \E t \in Threads : \E a \in ResizeArgs : Resize(t, id, a[1], a[2]) )
             => ReportedSizes(sessions'[id]) = ReportedSizes(sessions[id])]_vars

\* a resize to 1 x 2 has returned Ok, output has been processed since into
\* a full refresh of the 2 cells, and get_info then reports 1 x 2
C10_Witness ==
    /\ ret.op = "get_info" /\ ret.res = "Ok"
    /\ ret.val.size = Size(1, 2)
    /\ ret.id \in Registered
    /\ sessions[ret.id].terminal.prev_contents # None
    /\ sessions[ret.id].pty.winsize = Size(1, 2)

\* C11: every resize(id, cols, rows) on a registered session sends exactly
\* one TerminalResized{id, cols, rows}, whatever the sizes were and whatever
\* the resize of the PTY returns
C11_ResizeAlwaysEmits ==
    [][\A t \in Threads : \A id \in Registered : \A a \in ResizeArgs :
          Resize(t, id, a[1], a[2])
          => events' = <<Event("TerminalResized", id, sessions[id].uid,
                               [kind |-> "size", cols |-> a[1], rows |-> a[2]])>>]_vars

\* the step is a process_output pass of the session under id that takes a
\* chunk from its queue
ConsumesChunk(id) ==
    /\ id \in Registered /\ id \in DOMAIN sessions'
    /\ sessions'[id].uid = sessions[id].uid
    /\ Len(sessions'[id].pty.output_rx) < Len(sessions[id].pty.output_rx)

\* the ScreenUpdate events among those the step sends for id
UpdatesSent(id) ==
    {k \in 1..Len(events') :
        events'[k].type = "ScreenUpdate" /\ events'[k].session_id = id}

\* changes has one CellChange for each cell of a grid of this size
FullRefresh(changes, size) ==
    /\ Len(changes) = size.rows * size.cols
    /\ \A row \in 0..(size.rows - 1) : \A col \in 0..(size.cols - 1) :
          \E k \in 1..Len(changes) : changes[k].row = row /\ changes[k].col = col

\* C12: a resize empties the previous-contents cache, the cache stays empty
\* until a process_output pass consumes a chunk, and that pass sends a
\* ScreenUpdate with one CellChange for each cell of the new cols x rows,
\* also when the text is what it was before the resize
C12_FullRefreshAfterResize ==
    [][\A id \in Registered :
          /\ (\E t \in Threads : \E a \in ResizeArgs : Resize(t, id, a[1], a[2]))
                => sessions'[id].terminal.prev_contents = None
          /\ ( /\ sessions[id].terminal.prev_contents = None
               /\ id \in DOMAIN sessions'
               /\ sessions'[id].uid = sessions[id].uid
               /\ ~ConsumesChunk(id) )
                => sessions'[id].terminal.prev_contents = None
          /\ (ConsumesChunk(id) /\ sessions[id].terminal.prev_contents = None)
                => /\ Cardinality(UpdatesSent(id)) = 1
                   /\ \A k \in UpdatesSent(id) :
                         FullRefresh(events'[k].data.changes,
                                     sessions'[id].terminal.size)]_vars

\* what a front end draws from the emulator: the characters, their colours
\* and attributes, and the cursor
Rendered(term) ==
    [text |-> term.parser.text, attrs |-> term.parser.attrs, cursor |-> GetCursor(term)]

\* C13: a pass that consumes a chunk sends a ScreenUpdate if and only if the
\* rendered screen (characters, colours and attributes, cursor) after the
\* chunk differs from the rendered screen at the previous pass; stated for
\* the passes that have a previous pass with no resize since, on a grid
\* that has cells
C13_UpdateIffRenderedDiffers ==
    [][\A id \in Registered :
          ( /\ ConsumesChunk(id)
            /\ sessions[id].terminal.prev_contents # None
            /\ sessions[id].terminal.size.cols >= 1
            /\ sessions[id].terminal.size.rows >= 1 )
          => ( (UpdatesSent(id) # {})
               <=> (Rendered(sessions'[id].terminal) # Rendered(sessions[id].terminal)) )]_vars

\* changes lists the cells of the grid of this size in row-major order, each
\* with the cell the parser has there
RowMajor(changes, term) ==
    /\ Len(changes) = term.size.rows * term.size.cols
    /\ \A k \in 1..Len(changes) :
          /\ changes[k].row = (k - 1) \div term.size.cols
          /\ changes[k].col = (k - 1) % term.size.cols
          /\ Some(changes[k].cell) = ScreenCell(term.parser, changes[k].row, changes[k].col)

\* C14: whenever Terminal::process reports a change, the list has exactly
\* one CellChange for every cell of the visible grid in row-major order:
\* its length is rows * cols of the session's current size and entry k is
\* the cell at row k div cols, col k mod cols, also after a resize
C14_ChangesRowMajor ==
    [][\A id \in Registered :
          /\ \A k \in UpdatesSent(id) :
                /\ events'[k].data.changes # <<>>
                /\ RowMajor(events'[k].data.changes, sessions'[id].terminal)
          /\ \A t \in Threads :
                (Process(t, id) /\ ret'.val.opt # None)
                => RowMajor(ret'.val.opt[1].changes, sessions'[id].terminal)]_vars

\* a pass after a resize to 1 x 2 has sent an update with the two cells of
\* the new grid
C14_Witness ==
    /\ Len(events) = 1 /\ events[1].type = "ScreenUpdate"
    /\ events[1].session_id \in Registered
    /\ sessions[events[1].session_id].terminal.size = Size(1, 2)
    /\ Len(events[1].data.changes) = 2
    /\ events[1].data.changes[2].row = 1

\* C15: a process_output call returns Some(u) if and only if the same call
\* sent exactly one ScreenUpdate, whose payload is u (session id, changes,
\* cursor, title); a call that returns None sends no ScreenUpdate
C15_ReturnMatchesEvent ==
    [][\A t \in Threads : \A id \in Registered :
          Process(t, id)
          => /\ ret'.res = "Ok"
             /\ (ret'.val.opt # None) <=> (Cardinality(UpdatesSent(id)) = 1)
             /\ ret'.val.opt = None => UpdatesSent(id) = {}
             /\ \A k \in UpdatesSent(id) :
                   /\ ret'.val.opt = Some(events'[k].data)
                   /\ events'[k].data.session_id = id
                   /\ events'[k].uid = sessions[id].uid
             /\ \A k \in 1..Len(events') :
                   events'[k].type = "ScreenUpdate" => k \in UpdatesSent(id)]_vars

\* a process call has returned an update and the one event of the step is
\* the ScreenUpdate that carries it
C15_Witness ==
    /\ ret.op = "process" /\ ret.res = "Ok"
    /\ ret.val.opt # None
    /\ events = <<Event("ScreenUpdate", ret.id, ret.ghost.uid, ret.val.opt[1])>>

\* the entry of the theme table under name, as a theme of that name
TableThemes(name) ==
    {[THEMES[k][2] EXCEPT !.name = name] : k \in {x \in 1..Len(THEMES) : THEMES[x][1] = name}}

\* C16: set_theme(id, name) with a name of the theme table returns Ok and
\* get_theme(id) returns that entry (dracula: background RGB(40, 42, 54))
\* until the next successful set_theme; with a name that is not in the
\* table it returns InvalidConfig and no session's theme changes
C16_ThemeRoundTrip ==
    [][\A id \in Registered :
          /\ \A t \in Threads : \A n \in ThemeArgs :
                SetTheme(t, id, n)
                => IF TableThemes(n) # {}
                   THEN /\ ret'.res = "Ok"
                        /\ id \in DOMAIN sessions'
                        /\ sessions'[id].theme \in TableThemes(n)
                        /\ n = "dracula" => sessions'[id].theme.background = <<40, 42, 54>>
                   ELSE /\ ret'.res = "InvalidConfig"
                        /\ sessions' = sessions
          /\ \A t \in Threads :
                GetTheme(t, id)
                => /\ ret'.res = "Ok"
                   /\ ret'.val.theme = sessions[id].theme
                   /\ sessions' = sessions
          /\ ( /\ id \in DOMAIN sessions'
               /\ sessions'[id].uid = sessions[id].uid
               /\ ~ \E t \in Threads : \E n \in ThemeArgs :
                       SetTheme(t, id, n) /\ ret'.res = "Ok" )
             => sessions'[id].theme = sessions[id].theme]_vars

\* get_theme has returned the dracula entry after a set_theme, output
\* having been processed in between
C16_Witness ==
    /\ ret.op = "get_theme" /\ ret.res = "Ok"
    /\ ret.val.theme.name = "dracula"
    /\ ret.val.theme.background = <<40, 42, 54>>
    /\ ret.id \in Registered
    /\ sessions[ret.id].terminal.prev_contents # None

\* C20: the size of a session's emulator equals the window size of its PTY
\* in every reachable state, also after a resize that returns an error
C20_SizesAgree ==
    \A id \in Registered : sessions[id].terminal.size = sessions[id].pty.winsize

\* C17: a palette index 16..231 maps to the 6x6x6 cube with channel levels
\* 0, 51, ..., 255 (index 196 is (255, 0, 0)), an index 232..255 to the gray of
\* level (idx - 232) * 10 + 8 (index 244 is (128, 128, 128)), and no step of
\* the u8 arithmetic overflows.
Converted == ret.op = "from_vt100" /\ ret.val.of.kind = "idx"

C17_PaletteColors ==
    Converted =>
        LET idx == ret.val.of.i
            out == ret.val.out
            n == idx - 16
        IN  /\ ~out.overflow
            /\ (16 <= idx /\ idx <= 231) =>
                   /\ out.color = <<((n \div 36) % 6) * 51, ((n \div 6) % 6) * 51, (n % 6) * 51>>
                   /\ \A k \in 1..3 : out.color[k] \in {0, 51, 102, 153, 204, 255}
            /\ idx >= 232 =>
                   \A k \in 1..3 : out.color[k] = (idx - 232) * 10 + 8
            /\ idx = 196 => out.color = <<255, 0, 0>>
            /\ idx = 244 => out.color = <<128, 128, 128>>

C17_Witness ==
    /\ Converted
    /\ ret.val.of.i = 255
    /\ ret.val.out.color = <<238, 238, 238>>

\* C19: every registered session's terminal has at least one column and one
\* row.
C19_NoZeroDimension ==
    \A id \in Registered :
        /\ sessions[id].terminal.size.cols >= 1
        /\ sessions[id].terminal.size.rows >= 1

\* C21: every Screen get_screen returns has size.rows rows of size.cols cells
\* and a cursor with row < size.rows and col < size.cols, and the cursor of
\* every ScreenUpdate is within the size of its session at that pass.
WithinSize(cursor, size) ==
    cursor.position.row < size.rows /\ cursor.position.col < size.cols

C21_ScreenWithinSize ==
    /\ (ret.op = "get_screen" /\ ret.res = "Ok") =>
           /\ Len(ret.val.cells) = ret.val.size.rows
           /\ \A row \in 1..Len(ret.val.cells) : Len(ret.val.cells[row]) = ret.val.size.cols
           /\ WithinSize(ret.val.cursor, ret.val.size)
    /\ \A i \in 1..Len(events) :
           (events[i].type = "ScreenUpdate" /\ events[i].session_id \in Registered) =>
               WithinSize(events[i].data.cursor, sessions[events[i].session_id].terminal.size)

\* C24: per session the events are enqueued in the order in which their
\* causes took effect: no ScreenUpdate, TerminalResized or ProcessExit of a
\* session is enqueued while its SessionCreated is still to be sent, and no
\* SessionCreated of a later session with the same id is enqueued while the
\* SessionDestroyed of an earlier one is still to be sent.
Unannounced == {call[t].uid : t \in {x \in Threads : pc[x] = "create_emit"}}

DestroyedUnsent(id) ==
    {call[t].uid : t \in {x \in Threads : pc[x] = "destroy_emit" /\ call[x].id = id}}

C24_EventsInOrder ==
    [][\A i \in 1..Len(events') :
          /\ events'[i].type \in {"ScreenUpdate", "TerminalResized", "ProcessExit"}
                => events'[i].uid \notin Unannounced
          /\ events'[i].type = "SessionCreated"
                => \A d \in DestroyedUnsent(events'[i].session_id) : d >= events'[i].uid]_vars

\* C25: a process_output invocation takes at most one chunk from the queue
\* of its PTY, and a process_all call invokes process_output exactly once on
\* every registered session: the tick shortens each non-empty queue by one
\* chunk, its head, and leaves the empty ones empty.
Queue(m, id) == m[id].pty.output_rx

OneChunkLess(id) ==
    Queue(sessions', id) = IF Queue(sessions, id) = <<>> THEN <<>>
                           ELSE Tail(Queue(sessions, id))

C25_OneChunkPerPass ==
    [][/\ \A id \in Registered :
             (\E t \in Callers : Process(t, id)) => OneChunkLess(id)
       /\ ProcessAll =>
             /\ DOMAIN sessions' = Registered
             /\ \A id \in Registered : OneChunkLess(id)]_vars

C25_Witness ==
    /\ tickpc = "cleanup_dead"
    /\ Cardinality(Registered) = 2
    /\ Len(events) = 2
    /\ \A i \in 1..2 : events[i].type = "ScreenUpdate"
    /\ events[1].session_id # events[2].session_id
    /\ \E id \in Registered : Len(Queue(sessions, id)) = 1

\* C26: the cursor of every emitted ScreenUpdate is the cursor of the
\* emulator in the state from which the update's cell changes were computed:
\* right after the pass the emulator still shows that cursor and those
\* cells, whatever the callers, the tick and the reader thread did before.
Emitted == {events[i] : i \in {k \in 1..Len(events) : events[k].type = "ScreenUpdate"}}

C26_CursorWithCells ==
    \A e \in Emitted :
        (e.session_id \in Registered /\ sessions[e.session_id].uid = e.uid) =>
            LET term == sessions[e.session_id].terminal
            IN  /\ e.data.cursor.position = term.parser.cursor
                /\ Len(e.data.changes) = term.size.rows * term.size.cols
                /\ \A k \in 1..Len(e.data.changes) :
                       e.data.changes[k].cell =
                           [text |-> term.parser.text, attrs |-> term.parser.attrs]

C26_Witness ==
    \E e \in Emitted :
        /\ e.session_id \in Registered
        /\ e.data.cursor.position.col = 1
        /\ e.data.changes # <<>>
        /\ sessions[e.session_id].pty.output_rx = <<>>

\* C27: the stored title of a session is the title the emulator reported
\* after the latest pass at which the report was non-empty; a pass with an
\* empty report leaves it as it was; get_info and get_screen both return the
\* stored title.
StoredTitle(m, id) == m[id].terminal.title

Reported(m, id) == m[id].terminal.parser.title

C27_LastNonEmptyTitle ==
    [][\A id \in Registered :
          /\ ConsumesChunk(id) =>
                StoredTitle(sessions', id) =
                    IF Reported(sessions', id) # "" THEN Reported(sessions', id)
                    ELSE StoredTitle(sessions, id)
          /\ (\E t \in Callers : GetInfo(t, id)) => ret'.val.title = StoredTitle(sessions, id)
          /\ (\E t \in Callers : GetScreen(t, id)) => ret'.val.title = StoredTitle(sessions, id)]_vars

\* C28: the title of an emitted ScreenUpdate is present exactly when the
\* stored title of the session is non-empty at that pass, and then equals it.
C28_TitleWhenNonEmpty ==
    \A e \in Emitted :
        (e.session_id \in Registered /\ sessions[e.session_id].uid = e.uid) =>
            e.data.title = IF StoredTitle(sessions, e.session_id) # ""
                           THEN Some(StoredTitle(sessions, e.session_id)) ELSE None

\* C29: a pass that consumes a chunk ringing the bell and reports a change
\* enqueues the ScreenUpdate and then exactly one Bell for the session; a
\* pass that consumes another chunk enqueues no Bell.
EventsOf(id) == SelectSeq(events', LAMBDA e : e.session_id = id)

C29_BellAfterUpdate ==
    [][\A id \in Registered :
          ConsumesChunk(id) =>
              IF Head(sessions[id].pty.output_rx) = "bell" /\ UpdatesSent(id) # {}
              THEN /\ Len(EventsOf(id)) = 2
                   /\ EventsOf(id)[1].type = "ScreenUpdate"
                   /\ EventsOf(id)[2].type = "Bell"
              ELSE \A k \in 1..Len(events') : events'[k].type # "Bell"]_vars

\* C30: the mark log of a session is append-only: add_mark(m) appends m at
\* the end and enqueues exactly one Mark event with m; no other operation
\* changes the log or enqueues a Mark event.
AddsMark(id, mark) == \E t \in Callers : OwnAddMark(t, id, mark)

C30_MarksAppendOnly ==
    [][\A id \in Registered :
          /\ \A mark \in Marks :
                AddsMark(id, mark) =>
                    /\ sessions'[id].marks = Append(sessions[id].marks, mark)
                    /\ Len(events') = 1
                    /\ events'[1].type = "Mark"
                    /\ events'[1].session_id = id
                    /\ events'[1].data.mark = mark
          /\ (\A mark \in Marks : ~AddsMark(id, mark)) =>
                /\ id \in DOMAIN sessions'
                /\ sessions'[id].marks = sessions[id].marks
                /\ \A k \in 1..Len(events') : events'[k].type # "Mark"]_vars

C30_Witness ==
    /\ "a" \in Registered
    /\ sessions["a"].marks = <<"m1", "m2">>
    /\ Len(events) = 1
    /\ events[1].type = "Mark"
    /\ events[1].data.mark = "m2"
    /\ sessions["a"].terminal.size = Size(1, 2)
    /\ ~sessions["a"].pty.alive

\* C22: under a fair scheduler list, get_info and count hold the registry
\* lock for a bounded number of steps, so every parked writer eventually
\* holds the lock and every list, get_info and count call eventually
\* returns, also when writers keep arriving.
ListingOps == {"list", "get_info", "count"}

C22_NoStarvation ==
    \A t \in LockThreads :
        /\ (rw.at[t] = "parked" /\ rw.op[t] \in WriteOps) ~> (rw.writer = Some(t))
        /\ (rw.op[t] \in ListingOps) ~> (rw.at[t] = "idle")

\* C23: a write in progress on a session's PTY never keeps a list, get_info
\* or count from completing, also when other registry operations wait for
\* the registry lock: no listing call is parked behind a writer that waits
\* only for write calls to drop their read guards.
HeldByWritesOnly ==
    /\ rw.writer = None
    /\ rw.readers # {}
    /\ \A r \in rw.readers : rw.op[r] = "write"

BehindWriter(t) ==
    \E i, j \in 1..Len(rw.queue) :
        i < j /\ rw.queue[j] = t /\ rw.op[rw.queue[i]] \in WriteOps

C23_WriteLeavesListingFree ==
    \A t \in Threads :
        ~(rw.at[t] = "parked" /\ rw.op[t] \in ListingOps
            /\ BehindWriter(t) /\ HeldByWritesOnly)

\* The sessions that a step keeps (same key, same Session value identity)
Kept == {id \in Registered : id \in DOMAIN sessions' /\ sessions'[id].uid = sessions[id].uid}

\* C31: Session::kill only clears the PTY's alive flag: the registry keeps
\* the session, count() is unchanged and no event is enqueued; and no step
\* sets the alive flag of a PTY back from false to true.
C31_KillOnlyClearsAlive ==
    [][/\ \A id \in Registered :
             (\E t \in Callers : OwnKill(t, id))
                 => /\ DOMAIN sessions' = DOMAIN sessions
                    /\ Cardinality(DOMAIN sessions') = Cardinality(Registered)
                    /\ sessions' = [sessions EXCEPT ![id].pty.alive = FALSE]
                    /\ events' = <<>>
       /\ \A id \in Kept :
             ~sessions[id].pty.alive => ~sessions'[id].pty.alive]_vars

C31_Witness ==
    \E id \in Registered :
        /\ ret.op = "kill" /\ ret.id = id
        /\ ~sessions[id].pty.alive
        /\ sessions[id].pty.reader = "running"
        /\ sessions[id].pty.output_rx # <<>>

\* C32: the PTY's queue is first-in first-out between the reader thread
\* and try_read: a step either leaves it alone, or the running reader
\* appends one chunk at the back, or a pass takes the chunk at the front
\* and feeds exactly that chunk to the emulator; a pass on an empty queue
\* returns in the same step with nothing and changes nothing; on end of
\* stream the reader clears alive and the queue never grows again.
C32_QueueIsFifo ==
    [][\A id \in Kept :
          LET q  == sessions[id].pty.output_rx
              q2 == sessions'[id].pty.output_rx
          IN  /\ \/ q2 = q
                 \/ /\ sessions[id].pty.reader = "running"
                    /\ \E c \in Chunks : q2 = Append(q, c)
                 \/ /\ q # <<>>
                    /\ q2 = Tail(q)
                    /\ sessions'[id].terminal
                          = TerminalProcess(sessions[id].terminal, Head(q)).term
              /\ \A t \in Callers :
                    (q = <<>> /\ OwnProcessOutput(t, id))
                        => /\ ret'.val.opt = None
                           /\ sessions' = sessions
                           /\ events' = <<>>
              /\ ReaderEof(id)
                    => /\ ~sessions'[id].pty.alive
                       /\ q2 = q
              /\ sessions[id].pty.reader = "exited"
                    => /\ sessions'[id].pty.reader = "exited"
                       /\ Len(q2) <= Len(q)]_vars

C32_Witness ==
    \E id \in Registered :
        /\ ret.op = "process_output" /\ ret.id = id
        /\ ret.val.opt # None
        /\ sessions[id].pty.output_rx = <<"nop">>
        /\ sessions[id].pty.reader = "exited"

\* C33: the periodic tick loses no output: every session that a
\* cleanup_dead step removes has an empty queue, so each chunk its reader
\* enqueued before marking the PTY dead was fed to the emulator first.
C33_DrainedBeforeExit ==
    [][CleanupDead
          => \A id \in Registered \ DOMAIN sessions' :
                sessions[id].pty.output_rx = <<>>]_vars

\* no registry operation is between its steps
NoCallInFlight == \A t \in Threads : pc[t] = "idle"

\* the ids that have had a session
KnownIds == ExplicitIds \cup Registered \cup {p[2] : p \in gone.created}

\* the number of SessionCreated{id} events enqueued so far
CreatedCount(id) == Cardinality({p \in gone.created : p[2] = id})

\* the number of SessionDestroyed{id} and ProcessExit{id} events enqueued so
\* far, in a state where no call is in flight
EndedCount(id) ==
    Cardinality({p \in gone.destroyed : p[2] = id})
      + Cardinality({u \in gone.exited : <<u, id>> \in gone.created})

\* C34: event accounting per id: when no registry operation is in flight,
\* the SessionCreated{id} events enqueued minus the SessionDestroyed{id}
\* and ProcessExit{id} events enqueued number 1 if id is registered and 0
\* if it is not.
C34_EventAccounting ==
    NoCallInFlight
        => \A id \in KnownIds :
              CreatedCount(id) - EndedCount(id) = IF id \in Registered THEN 1 ELSE 0

\* C35: sessions are independent with respect to progress: under a fair
\* scheduler every resize of session "b" that has been called returns, and
\* every process_all pass the tick has reached completes, also while a
\* write to session "a" is stalled in write_all.
C35_SessionsIndependent ==
    /\ \A t \in Threads :
          (rw.op[t] = "resize" /\ rw.at[t] # "idle")
              ~> (rw.at[t] = "idle" /\ ret.thread = t /\ ret.op = "resize"
                    /\ ret.id = OtherId)
    /\ (tickpc = "process_all" /\ rw.at["tick"] # "idle") ~> (tickpc = "cleanup_dead")

====
